---------------------------- MODULE Spec2Model ----------------------------
(***************************************************************************)
(* Model of the announce cache engine of btc (src/src/cache.rs): the lock  *)
(* registry CACHE_LOCKS with its reference counts, the connection          *)
(* semaphore TRACKER_CONNECTIONS, the cache files, and fetch_cache, one    *)
(* action per stretch of code between two suspension points (.await),      *)
(* two readings of the clock or two operations on a shared object.         *)
(*                                                                         *)
(* Time is a discrete clock that can advance between any two steps: every  *)
(* read of SystemTime::now() is a step of its own. The operations on a     *)
(* tokio File run in the blocking pool: the `open` with truncate(true) of  *)
(* write_cache is awaited, `write_all` hands the bytes to the pool and     *)
(* returns, and the File is dropped without flush; of a serialisation      *)
(* longer than the buffer of the File, `write_all` hands over the first    *)
(* buffer, awaits it and hands over the rest.                              *)
(***************************************************************************)
EXTENDS Integers, Sequences, FiniteSets, TLC

VARIABLES
    now,        \* SystemTime::now(), in whole seconds
    disk,       \* the cache files under get_cache_root_dir(), by info-hash
    pool,       \* file operations left in the blocking pool, by info-hash
    registry,   \* CACHE_LOCKS: the map info-hash -> reference count
    mutex,      \* the owner of the CACHE_LOCKS mutex, 0 when free
    writer,     \* per info-hash RwLock: the task holding the write guard, 0 when none
    readers,    \* per info-hash RwLock: the tasks holding a read guard
    queue,      \* per info-hash RwLock: the waiters, first come first served
    permits,    \* TRACKER_CONNECTIONS: available permits
    others,     \* permits held by fetches for info-hashes outside Keys
    pc,         \* where each fetch_cache task stands
    args,       \* the arguments of each call
    cur,        \* the local curr_cache / torrent_size of each call
    last,       \* the call that returned last: its arguments and what it returned
    buf,        \* the bytes handed to BencodeObject::try_from
    pos,        \* the index of the byte try_from hands to the parser next
    stack,      \* BencodeParser::stack
    result      \* what try_from returned

vars == <<now, disk, pool, registry, mutex, writer, readers, queue, permits, others,
          pc, args, cur, last, buf, pos, stack, result>>

(* the variables of the bencode parser *)
bvars == <<buf, pos, stack, result>>

----------------------------------------------------------------------------
(* Bounds of the model *)

NumTasks == 3
NumFairTasks == 2
NumKeys == 2
NumOrigins == 2
NumAddrs == 2
MaxTime == 2
ConcMaxTime == 1
MaxTtl == 2
MaxSize == 1
MaxPeers == 2
MaxMinInterval == 3
NumProjAddrs == 4
BlockPeers == 20000
MaxInput == 4

(* Program constants *)

TrackerPermits == 10

Tasks == 1..NumTasks
Keys == 1..NumKeys
Origins == 1..NumOrigins
Addrs == 1..NumAddrs
None == -1
Sizes == 0..MaxSize
Ttls == 0..MaxTtl
MinIntervals == {None} \cup 0..MaxMinInterval

EmptyMap == [x \in {} |-> 0]

Put(f, k, v) == [x \in DOMAIN f \cup {k} |-> IF x = k THEN v ELSE f[x]]

Without(f, ks) == [x \in DOMAIN f \ ks |-> f[x]]

RECURSIVE SeqsUpTo(_, _)
SeqsUpTo(S, n) ==
    IF n = 0 THEN {<<>>}
    ELSE LET shorter == SeqsUpTo(S, n - 1)
         IN shorter \cup {Append(s, x) : s \in shorter, x \in S}

----------------------------------------------------------------------------
(* TorrentCache and the cache files *)

DefaultCache ==
    [size |-> 0, trackers |-> EmptyMap, peers_time |-> {}, peers_addr |-> EmptyMap]

Peer(expire, addr) == [expire |-> expire, addr |-> addr]

AbsentFile == [st |-> "absent", dir |-> DefaultCache]
TruncatedFile == [st |-> "truncated", dir |-> DefaultCache]
ValidFile(c) == [st |-> "valid", dir |-> c]

(* the file holds the first buffer of the serialisation of c and no more *)
PartialFile(c) == [st |-> "partial", dir |-> c]

(* the file holds the bytes of no serialisation: a hole as long as the
   buffer, and behind it the rest of the serialisation of c *)
GarbledFile(c) == [st |-> "garbled", dir |-> c]

NoCache == [some |-> FALSE, dir |-> DefaultCache]
SomeCache(c) == [some |-> TRUE, dir |-> c]

(* the blocking pool has nothing left to do for a file: `opens` counts the
   opens with truncate whose caller was dropped while it awaited them (line
   90), `write` is the directory of which write_all handed over a buffer
   (line 91), `part` tells which bytes of its serialisation the buffer holds
   (the whole of it, the first max_buf_size bytes, or the rest), and `done`
   is the result of the buffer that write_all awaits *)
IdlePool == [opens |-> 0, write |-> NoCache, part |-> "whole", done |-> "none"]

(* read_cache on a file that does not change while it is read: Ok(None) for
   a missing file, Ok(Some) for a file that deserializes, Err for one that
   does not *)
read_cache(file) ==
    CASE file.st = "absent" -> [ok |-> TRUE, val |-> NoCache]
      [] file.st = "valid" -> [ok |-> TRUE, val |-> SomeCache(file.dir)]
      [] OTHER -> [ok |-> FALSE, val |-> NoCache]

(* the validity test of lines 202-203 and 214-215 *)
IsValidFor(c, origin, t) ==
    /\ c.some
    /\ origin \in DOMAIN c.dir.trackers
    /\ t < c.dir.trackers[origin]

----------------------------------------------------------------------------
(* The merge phase of fetch_cache, lines 234-276 *)

(* a ttl that ignores the origin's min interval *)
EffectiveTtlUnfloored(ttl, min_interval) == ttl

(* lines 238-242: the origin's min interval is a floor of the ttl *)
EffectiveTtl(ttl, min_interval) ==
    IF min_interval # None /\ min_interval >= ttl THEN min_interval ELSE ttl

(* lines 246-251: one element of extract_if on peers_time; the predicate
   reads the clock for each peer, and the address of an extracted peer is
   removed from peers_addr *)
EvictExpired(c, p, t) ==
    IF p.expire < t
    THEN [c EXCEPT !.peers_time = @ \ {p},
                   !.peers_addr = Without(@, {p.addr})]
    ELSE c

(* a turn of the loop that leaves an address already present as it is *)
UpsertIfAbsent(c, addr, expiration) ==
    IF addr \in DOMAIN c.peers_addr
    THEN c
    ELSE [c EXCEPT !.peers_time = @ \cup {Peer(expiration, addr)},
                   !.peers_addr = Put(@, addr, expiration)]

(* a turn of the loop that leaves the old entry of peers_time in place *)
UpsertKeepOld(c, addr, expiration) ==
    IF addr \in DOMAIN c.peers_addr
    THEN [c EXCEPT !.peers_time = @ \cup {Peer(expiration, addr)},
                   !.peers_addr = [@ EXCEPT ![addr] = expiration]]
    ELSE [c EXCEPT !.peers_time = @ \cup {Peer(expiration, addr)},
                   !.peers_addr = Put(@, addr, expiration)]

(* lines 263-275: one turn of the loop over new_peers *)
Upsert(c, addr, expiration) ==
    IF addr \in DOMAIN c.peers_addr
    THEN [c EXCEPT !.peers_time =
                       (@ \ {Peer(c.peers_addr[addr], addr)})
                           \cup {Peer(expiration, addr)},
                   !.peers_addr = [@ EXCEPT ![addr] = expiration]]
    ELSE [c EXCEPT !.peers_time = @ \cup {Peer(expiration, addr)},
                   !.peers_addr = Put(@, addr, expiration)]

RECURSIVE UpsertAll(_, _, _)
UpsertAll(c, new_peers, expiration) ==
    IF new_peers = <<>> THEN c
    ELSE UpsertAll(Upsert(c, Head(new_peers), expiration), Tail(new_peers), expiration)

(* a refresh that starts from an empty directory *)
RenewAfresh(loaded, torrent_size, origin, ttl, resp, t) ==
    [DefaultCache EXCEPT !.size = torrent_size,
                         !.trackers = Put(@, origin,
                                          t + EffectiveTtl(ttl, resp.min_interval))]

(* lines 234-245: the loaded directory or the default one, with the size and
   with the expiry of the origin, from one reading t of the clock *)
Renew(loaded, torrent_size, origin, ttl, resp, t) ==
    LET base == IF loaded.some THEN loaded.dir ELSE DefaultCache
    IN [base EXCEPT !.size = torrent_size,
                    !.trackers = Put(@, origin,
                                     t + EffectiveTtl(ttl, resp.min_interval))]

(* the origin's answers: IPv4 addresses are the odd ones, IPv6 the even ones *)
IsIpv4(a) == a % 2 = 1

(* line 91: the most bytes that the buffer of a tokio File takes from one
   write_all, 2 MiB *)
max_buf_size == 2097152

(* line 84: the bytes that serde_json::to_string writes for a directory
   without peers and origins, and for each origin, for each address of Addrs
   and for each address of the block (its entries in peers_time and in
   peers_addr), with the addresses and the expiries in their usual widths *)
SerLen == [head |-> 56, tracker |-> 80, peer |-> 140, block_peer |-> 145]

(* an IPv4 address outside Addrs that stands for the lowest addresses of a
   block of BlockPeers consecutive addresses which the origin returns
   together: those whose entries take len bytes of the serialisation *)
Prefix(len) == 2 * (NumAddrs + NumProjAddrs + len) + 1

(* all the addresses of the block: the serialisation of a directory that
   holds them is longer than the buffer of the File and not longer than two *)
Block == Prefix(BlockPeers * SerLen.block_peer)

(* lines 84 and 91: the serialisation of the directory, which is as long as
   all that the directory holds makes it, does not fit the buffer *)
Big(c) ==
    LET RECURSIVE Sum(_)
        Sum(S) == IF S = {} THEN 0
                  ELSE LET a == CHOOSE x \in S : TRUE
                       IN (IF a >= Prefix(1)
                           THEN (a - 1) \div 2 - NumAddrs - NumProjAddrs
                           ELSE SerLen.peer) + Sum(S \ {a})
        length == SerLen.head
                  + SerLen.tracker * Cardinality(DOMAIN c.trackers)
                  + Sum(DOMAIN c.peers_addr)
    IN length > max_buf_size

(* the bytes of a file, by the buffers in which they were written: the whole
   serialisation of a directory, or its first max_buf_size bytes and the
   rest *)
Parts(file) ==
    CASE file.st = "valid" ->
            IF Big(file.dir)
            THEN <<[part |-> "first", dir |-> file.dir],
                   [part |-> "rest", dir |-> file.dir]>>
            ELSE <<[part |-> "whole", dir |-> file.dir]>>
      [] file.st = "partial" -> <<[part |-> "first", dir |-> file.dir]>>
      [] file.st = "garbled" -> <<[part |-> "hole", dir |-> DefaultCache],
                                  [part |-> "rest", dir |-> file.dir]>>
      [] OTHER -> <<>>

(* lines 70-74: the bytes that read_to_string has put together, as a file *)
Joined(text) ==
    CASE text = <<>> -> TruncatedFile
      [] Len(text) = 1 /\ text[1].part = "whole" -> ValidFile(text[1].dir)
      [] Len(text) = 1 /\ text[1].part = "first" -> PartialFile(text[1].dir)
      [] /\ Len(text) = 2
         /\ text[1].part = "first"
         /\ text[2].part = "rest"
         /\ text[1].dir = text[2].dir -> ValidFile(text[1].dir)
      [] OTHER -> GarbledFile(DefaultCache)

(* the answers of an origin: the addresses of the whole tuples of `peers` and
   `peers6`, and the number of bytes that follow the last whole tuple *)
Responses ==
    {[min_interval |-> m, peers |-> p4, peers6 |-> p6, rest |-> 0, rest6 |-> 0] :
        m \in MinIntervals,
        p4 \in SeqsUpTo({a \in Addrs : IsIpv4(a)}, MaxPeers),
        p6 \in SeqsUpTo({a \in Addrs : ~IsIpv4(a)}, MaxPeers)}

----------------------------------------------------------------------------
(* The projection of a directory into an announce response, tracker.rs 39-108 *)

(* the socket addresses of the model: address a is 10.0.0.a or ::a, port
   6880 + a *)
ProjAddrs == 1..NumProjAddrs

Octets(a) ==
    IF IsIpv4(a) THEN <<10, 0, 0, a>> ELSE [i \in 1..16 |-> IF i = 16 THEN a ELSE 0]

Port(a) == 6880 + a

SockAddr(a) == [ip |-> Octets(a), port |-> Port(a)]

(* u16::to_be_bytes and u16::from_be_bytes *)
to_be_bytes(port) == <<port \div 256, port % 256>>

from_be_bytes(hi, lo) == hi * 256 + lo

(* a port written low byte first *)
serialize_peer_little_endian(a) == Octets(a) \o <<Port(a) % 256, Port(a) \div 256>>

(* tracker.rs 79-94: the octets of the address, then the port, big-endian *)
serialize_peer_binary(a) == Octets(a) \o to_be_bytes(Port(a))

(* tracker.rs 65-77 and 96-108 on a list of whole tuples of n bytes: each
   chunk gives the address of its first n - 2 bytes and the port of its last 2 *)
deserialize_peers(value, n) ==
    [i \in 1..(Len(value) \div n) |->
        [ip |-> SubSeq(value, n * (i - 1) + 1, n * i - 2),
         port |-> from_be_bytes(value[n * i - 1], value[n * i])]]

deserialize_peers_binary(value) == deserialize_peers(value, 6)

deserialize_peers6_binary(value) == deserialize_peers(value, 18)

(* the orders in which the keys of a HashMap can be iterated *)
Orders(S) ==
    {f \in [1..Cardinality(S) -> S] : \A i, j \in DOMAIN f : f[i] = f[j] => i = j}

(* Peer derives Ord: by expire, then by addr, where every IPv4 SocketAddr
   comes before every IPv6 one *)
PeerLess(p, q) ==
    \/ p.expire < q.expire
    \/ /\ p.expire = q.expire
       /\ IF IsIpv4(p.addr) = IsIpv4(q.addr) THEN p.addr < q.addr
          ELSE IsIpv4(p.addr)

(* line 248: the order in which extract_if visits the BTreeSet peers_time *)
SweepOrder(S) ==
    CHOOSE f \in Orders(S) : \A i, j \in DOMAIN f : i < j => PeerLess(f[i], f[j])

RECURSIVE ExtendAll(_, _)
ExtendAll(keys, v4) ==
    IF keys = <<>> THEN <<>>
    ELSE (IF IsIpv4(Head(keys)) = v4 THEN serialize_peer_binary(Head(keys)) ELSE <<>>)
             \o ExtendAll(Tail(keys), v4)

(* tracker.rs 39-63: From<TorrentCache> for AnnounceResponse, the keys of
   peers_addr iterated in the order keys *)
From(value, keys) ==
    [interval |-> 30,
     min_interval |-> 30,
     seeders |-> 0,
     leechers |-> Cardinality(DOMAIN value.peers_addr),
     peers |-> ExtendAll(keys, TRUE),
     peers6 |-> ExtendAll(keys, FALSE)]

----------------------------------------------------------------------------
(* bytes_bencode.rs: the bencode parser *)

(* the bytes of the input that the parser tells apart: the terminator, the
   openers of an integer, a list and a dictionary, three digits, the colon and
   a byte that begins no object *)
Bytes == {"e", "i", "l", "d", "0", "1", "2", ":", "x"}

Inputs == SeqsUpTo(Bytes, MaxInput)

(* lines 21-25: the digit of a character, None where to_digit returns Err *)
to_digit(x) ==
    CASE x = "0" -> 0
      [] x = "1" -> 1
      [] x = "2" -> 2
      [] OTHER -> None

(* lines 28-36: the variants of BencodeObject; `items` holds the objects of a
   list and the pairs of a dictionary, `some` tells Some(vec) from None *)
ObjNone ==
    [kind |-> "None", size |-> 0, some |-> FALSE, data |-> <<>>, items |-> <<>>]

ObjInteger(str) == [ObjNone EXCEPT !.kind = "Integer", !.data = str]

ObjBytes(size, some, vec) ==
    [ObjNone EXCEPT !.kind = "Bytes", !.size = size, !.some = some, !.data = vec]

ObjList(list) == [ObjNone EXCEPT !.kind = "List", !.items = list]

ObjDictionary(dict) == [ObjNone EXCEPT !.kind = "Dictionary", !.items = dict]

(* lines 98-102: the stack of a new parser holds the root list *)
new_parser == <<ObjList(<<>>)>>

(* what a method of the parser does: the stack it leaves, or Err, or a panic *)
Went(st) == [outcome |-> "Ok", stack |-> st]
Erred == [outcome |-> "Err", stack |-> <<>>]
Panicked == [outcome |-> "Panic", stack |-> <<>>]

(* lines 109-126: the object put into the last pair of a dictionary, a new
   pair begun when there is none or the last is complete *)
PushPair(dict, obj) ==
    LET open == /\ dict # <<>>
                /\ \/ dict[Len(dict)][2].kind = "None"
                   \/ dict[Len(dict)][1].kind = "None"
        d == IF open THEN dict ELSE Append(dict, <<ObjNone, ObjNone>>)
        target == d[Len(d)] IN
    IF target[1].kind = "None"
    THEN [d EXCEPT ![Len(d)] = <<obj, target[2]>>]
    ELSE [d EXCEPT ![Len(d)] = <<target[1], obj>>]

(* lines 103-130: the top of the stack is popped and put into the object below
   it; last_mut().unwrap() panics when there is no object below *)
push(st) ==
    LET obj == st[Len(st)]
        rest == SubSeq(st, 1, Len(st) - 1) IN
    IF rest = <<>> THEN Panicked
    ELSE LET top == rest[Len(rest)] IN
         CASE top.kind = "List" ->
                  Went([rest EXCEPT ![Len(rest)] = ObjList(Append(top.items, obj))])
           [] top.kind = "Dictionary" ->
                  Went([rest EXCEPT ![Len(rest)] =
                           ObjDictionary(PushPair(top.items, obj))])
           [] OTHER -> Panicked

(* lines 131-189: one byte is handed to the parser *)
next(st, x) ==
    LET top == st[Len(st)]
        With(obj) == [st EXCEPT ![Len(st)] = obj] IN
    CASE top.kind = "None" -> Panicked
      [] top.kind = "Integer" ->
             IF x = "e" THEN push(st)
             ELSE Went(With(ObjInteger(Append(top.data, x))))
      [] top.kind = "Bytes" ->
             IF top.some
             THEN LET vec == Append(top.data, x)
                      filled == With(ObjBytes(top.size, TRUE, vec)) IN
                  IF Len(vec) = top.size THEN push(filled) ELSE Went(filled)
             ELSE IF x = ":"
                  THEN IF top.size = 0 THEN push(st)
                       ELSE Went(With(ObjBytes(top.size, TRUE, <<>>)))
                  ELSE IF to_digit(x) = None THEN Erred
                       ELSE Went(With(ObjBytes(top.size * 10 + to_digit(x),
                                               FALSE, <<>>)))
      [] top.kind \in {"List", "Dictionary"} ->
             CASE x = "e" -> push(st)
               [] x = "i" -> Went(Append(st, ObjInteger(<<>>)))
               [] to_digit(x) # None -> Went(Append(st, ObjBytes(to_digit(x), FALSE, <<>>)))
               [] x = "l" -> Went(Append(st, ObjList(<<>>)))
               [] x = "d" -> Went(Append(st, ObjDictionary(<<>>)))
               [] OTHER -> Erred

(* try_from has not returned; `root` tells whether the object it returns was
   the only one on the stack *)
NoResult == [outcome |-> "none", obj |-> ObjNone, root |-> FALSE]

(* no input has been handed to try_from *)
AtRest ==
    /\ buf = <<>>
    /\ pos = 1
    /\ stack = new_parser
    /\ result = NoResult

----------------------------------------------------------------------------
(* The state after construction: no file, an empty registry, all permits *)

NoArgs == [key |-> 1, origin |-> 1, size |-> None, ttl |-> 0]

(* no answer of the origin yet *)
NoResponse ==
    [min_interval |-> None, peers |-> <<>>, peers6 |-> <<>>, rest |-> 0, rest6 |-> 0]

(* the locals of a call: curr_cache, torrent_size, tracker_response, the file
   as read_cache read it under the write guard, the buffers that read_cache has
   read so far and the one of which it has read the beginning, the clock value of the last validity test or of line 245, the
   peers that extract_if has still to visit and whether it is inside a block,
   the clock value of line 260, and the way the call is about to return *)
NoCur ==
    [cache |-> NoCache, size |-> None, resp |-> NoResponse, before |-> AbsentFile,
     text |-> <<>>, half |-> <<>>, tcheck |-> 0, todo |-> <<>>, mid |-> FALSE,
     texp |-> 0, path |-> "none"]

NoLast ==
    [args |-> NoArgs, outcome |-> "none", path |-> "none", dir |-> DefaultCache,
     tcheck |-> 0, tret |-> 0]

Init ==
    /\ now = 0
    /\ disk = [k \in Keys |-> AbsentFile]
    /\ pool = [k \in Keys |-> IdlePool]
    /\ registry = EmptyMap
    /\ mutex = 0
    /\ writer = [k \in Keys |-> 0]
    /\ readers = [k \in Keys |-> {}]
    /\ queue = [k \in Keys |-> <<>>]
    /\ permits = TrackerPermits
    /\ others = 0
    /\ pc = [t \in Tasks |-> "idle"]
    /\ args = [t \in Tasks |-> NoArgs]
    /\ cur = [t \in Tasks |-> NoCur]
    /\ last = NoLast
    /\ AtRest

----------------------------------------------------------------------------
(* The per-info-hash RwLock (tokio: fair, first come first served) *)

Waiter(t, mode) == [task |-> t, mode |-> mode]

(* try_read_owned, line 111 *)
TryRead(k) == writer[k] = 0 /\ queue[k] = <<>>

(* a try_write_owned on one lock shared by every info-hash *)
TryWriteGlobal(k) ==
    \A j \in Keys : writer[j] = 0 /\ readers[j] = {} /\ queue[j] = <<>>

(* try_write_owned, line 153 *)
TryWrite(k) == writer[k] = 0 /\ readers[k] = {} /\ queue[k] = <<>>

(* read_owned().await / write_owned().await complete for the first waiter *)
Granted(k, t) ==
    /\ queue[k] # <<>>
    /\ Head(queue[k]).task = t
    /\ writer[k] = 0
    /\ Head(queue[k]).mode = "write" => readers[k] = {}

(* Dropping the inner OwnedRwLock*Guard, or the pending read_owned /
   write_owned future: what Drop does for the fields of a guard, lines 102, 144 *)
DropInner(k, t) ==
    /\ writer' = [writer EXCEPT ![k] = IF @ = t THEN 0 ELSE @]
    /\ readers' = [readers EXCEPT ![k] = @ \ {t}]
    /\ queue' = [queue EXCEPT ![k] = SelectSeq(@, LAMBDA w : w.task # t)]

(* an acquisition that counts only the first user of an entry *)
RegisterUncounted(reg, k) == Put(reg, k, IF k \in DOMAIN reg THEN reg[k] ELSE 1)

(* lines 108-109 and 150-151: entry(..).or_default() and entry.1 += 1 *)
Register(reg, k) == Put(reg, k, IF k \in DOMAIN reg THEN reg[k] + 1 ELSE 1)

(* a release that removes the entry whatever its count *)
UnregisterAlways(reg, k) == Without(reg, {k})

(* a release that decrements and leaves the entry in the map *)
UnregisterKeepsEntry(reg, k) == [reg EXCEPT ![k] = @ - 1]

(* lines 132-135 and 174-177: entry.1 -= 1 and the removal at zero *)
Unregister(reg, k) ==
    IF reg[k] - 1 = 0 THEN Without(reg, {k}) ELSE [reg EXCEPT ![k] = @ - 1]

(* Dropping the SemaphorePermit, which is alive from line 226 to line 232:
   line 232 or the local going out of scope *)
DropPermit(t) == permits' = IF pc[t] = "announce" THEN permits + 1 ELSE permits

(* locals that are forgotten instead of dropped *)
LocalsLeaked(t) == UNCHANGED <<writer, readers, queue, permits>>

(* The locals of fetch_cache go out of scope (an early return through `?`,
   a panic unwinding, or the future dropped by its caller): the inner guard
   and the permit are released by their Drop, the reference count stays *)
DropLocals(t) ==
    /\ DropInner(args[t].key, t)
    /\ DropPermit(t)

(* fetch_cache is over for task t; the call and what it returned are recorded
   (for a call that did not return Ok, where it stood) *)
Return(t, outcome, path, dir, tcheck) ==
    /\ pc' = [pc EXCEPT ![t] = "done"]
    /\ args' = [args EXCEPT ![t] = NoArgs]
    /\ cur' = [cur EXCEPT ![t] = NoCur]
    /\ last' = IF outcome = "Ok"
               THEN [args |-> args[t], outcome |-> outcome, path |-> path,
                     dir |-> dir, tcheck |-> tcheck, tret |-> now]
               ELSE [NoLast EXCEPT !.args = args[t], !.outcome = outcome,
                                   !.path = path]

(* A `?` that returns Err from fetch_cache *)
Fail(t) ==
    /\ DropLocals(t)
    /\ Return(t, "Err", pc[t], DefaultCache, 0)
    /\ UNCHANGED <<bvars, pool, now, disk, registry, mutex, others>>

----------------------------------------------------------------------------
(* fetch_cache, lines 182-282 *)

(* line 182: a call with its arguments; the tasks are interchangeable and are
   numbered in the order of their calls *)
CallWith(t, inputs) ==
    /\ pc[t] = "idle"
    /\ \A u \in Tasks : u < t => pc[u] # "idle"
    /\ \E a \in inputs :
          /\ args' = [args EXCEPT ![t] = a]
          /\ cur' = [cur EXCEPT ![t] = [NoCur EXCEPT !.size = a.size]]
    /\ pc' = [pc EXCEPT ![t] = "r_lock"]
    /\ UNCHANGED <<bvars, pool, now, disk, registry, mutex, writer, readers, queue, permits,
                   others, last>>

(* the tracker_url of a call: one that parses and has a host, one that parses
   and has none (mailto:, data:, unix:), one that does not parse *)
UrlKinds == {"host", "no_host", "unparsable"}

(* line 191: Url::parse(&tracker_url)?.host_str().unwrap() *)
ParseHost(url) ==
    CASE url = "unparsable" -> "Err"
      [] url = "no_host" -> "Panic"
      [] OTHER -> "Ok"

(* lines 182-194: a call whose tracker_url gives no origin key is over before
   the first await *)
CallRejected(t) ==
    /\ pc[t] = "idle"
    /\ \A u \in Tasks : u < t => pc[u] # "idle"
    /\ \E url \in UrlKinds :
          /\ ParseHost(url) # "Ok"
          /\ Return(t, ParseHost(url), url, DefaultCache, 0)
    /\ UNCHANGED <<bvars, pool, now, disk, registry, mutex, writer, readers, queue, permits,
                   others>>

(* line 107: CACHE_LOCKS.lock().await in CacheLockReadGuard::new *)
ReadNewLock(t) ==
    /\ pc[t] = "r_lock"
    /\ mutex = 0
    /\ mutex' = t
    /\ pc' = [pc EXCEPT ![t] = "r_new"]
    /\ UNCHANGED <<bvars, pool, now, disk, registry, writer, readers, queue, permits, others,
                   args, cur, last>>

(* lines 108-118: the entry, the count, try_read_owned; the mutex is
   released, with the return of the guard or by drop(cache_locks) *)
ReadNew(t) ==
    LET k == args[t].key IN
    /\ pc[t] = "r_new"
    /\ mutex = t
    /\ registry' = Register(registry, k)
    /\ IF TryRead(k)
       THEN /\ readers' = [readers EXCEPT ![k] = @ \cup {t}]
            /\ pc' = [pc EXCEPT ![t] = "r_load"]
       ELSE /\ pc' = [pc EXCEPT ![t] = "r_enq"]
            /\ UNCHANGED readers
    /\ mutex' = 0
    /\ UNCHANGED <<bvars, pool, now, disk, writer, queue, permits, others, args, cur,
                   last>>

(* line 119: the first poll of read_owned(): the lock is taken when it has
   become free, otherwise the task joins the queue of the lock *)
ReadEnqueue(t) ==
    LET k == args[t].key IN
    /\ pc[t] = "r_enq"
    /\ IF TryRead(k)
       THEN /\ readers' = [readers EXCEPT ![k] = @ \cup {t}]
            /\ pc' = [pc EXCEPT ![t] = "r_load"]
            /\ UNCHANGED queue
       ELSE /\ queue' = [queue EXCEPT ![k] = Append(@, Waiter(t, "read"))]
            /\ pc' = [pc EXCEPT ![t] = "r_wait"]
            /\ UNCHANGED readers
    /\ UNCHANGED <<bvars, pool, now, disk, registry, mutex, writer, permits, others,
                   args, cur, last>>

(* line 119: entry_lock.read_owned().await completes *)
ReadWait(t) ==
    LET k == args[t].key IN
    /\ pc[t] = "r_wait"
    /\ Granted(k, t)
    /\ queue' = [queue EXCEPT ![k] = Tail(@)]
    /\ readers' = [readers EXCEPT ![k] = @ \cup {t}]
    /\ pc' = [pc EXCEPT ![t] = "r_load"]
    /\ UNCHANGED <<bvars, pool, now, disk, registry, mutex, writer, permits, others, args,
                   cur, last>>

(* lines 65-68 of read_cache, called at line 199 under the read guard and at
   line 212 under the write guard: create_dir_all and try_exists; Ok(None)
   for a file that is not there *)
LoadExists(t) ==
    LET w == pc[t] = "w_load" IN
    /\ pc[t] \in {"r_load", "w_load"}
    /\ IF disk[args[t].key].st = "absent"
       THEN /\ cur' = [cur EXCEPT ![t] =
                          IF w THEN [NoCur EXCEPT !.size = cur[t].size]
                          ELSE [@ EXCEPT !.cache = NoCache]]
            /\ pc' = [pc EXCEPT ![t] = IF w THEN "w_check" ELSE "r_unlock"]
       ELSE /\ pc' = [pc EXCEPT ![t] = IF w THEN "w_read" ELSE "r_read"]
            /\ UNCHANGED cur
    /\ UNCHANGED <<bvars, pool, now, disk, registry, mutex, writer, readers, queue,
                   permits, others, args, last>>

(* lines 70-74: the file is open and read_to_string reads on, from where it
   stands in the file: the beginning of the next buffer and then its
   remainder, which are the bytes that the file holds there by then, or the
   end of the file. What it reads of two buffers, or of one that was cut off,
   are the bytes of no buffer *)
LoadRead(t) ==
    LET parts == Parts(disk[args[t].key])
        i == Len(cur[t].text) + 1
        mixed == [part |-> "mixed", dir |-> DefaultCache]
        eof == pc' = [pc EXCEPT ![t] = IF pc[t] = "w_read" THEN "w_parse"
                                       ELSE "r_parse"] IN
    /\ pc[t] \in {"r_read", "w_read"}
    /\ IF cur[t].half = <<>>
       THEN IF i <= Len(parts)
            THEN /\ cur' = [cur EXCEPT ![t].half = <<parts[i]>>]
                 /\ UNCHANGED pc
            ELSE /\ eof
                 /\ UNCHANGED cur
       ELSE IF i <= Len(parts)
            THEN /\ cur' = [cur EXCEPT
                               ![t].text = Append(@, IF <<parts[i]>> = cur[t].half
                                                     THEN parts[i] ELSE mixed),
                               ![t].half = <<>>]
                 /\ UNCHANGED pc
            ELSE /\ cur' = [cur EXCEPT ![t].text = Append(@, mixed),
                                       ![t].half = <<>>]
                 /\ eof
    /\ UNCHANGED <<bvars, pool, now, disk, registry, mutex, writer, readers, queue,
                   permits, others, args, last>>

(* line 75, then line 199 or 212: serde_json::from_str on the bytes that
   were read; `?` returns its error *)
LoadParse(t) ==
    LET r == read_cache(Joined(cur[t].text))
        w == pc[t] = "w_parse" IN
    /\ pc[t] \in {"r_parse", "w_parse"}
    /\ IF r.ok
       THEN /\ cur' = [cur EXCEPT ![t] =
                          IF w THEN [NoCur EXCEPT !.cache = r.val,
                                                  !.size = cur[t].size,
                                                  !.before = Joined(cur[t].text)]
                          ELSE [@ EXCEPT !.cache = r.val, !.text = <<>>]]
            /\ pc' = [pc EXCEPT ![t] = IF w THEN "w_check" ELSE "r_unlock"]
            /\ UNCHANGED <<bvars, pool, now, disk, registry, mutex, writer, readers,
                           queue, permits, others, args, last>>
       ELSE Fail(t)

(* lines 65-74 at line 199 or 212: create_dir_all, try_exists, the open or
   the read fails with an I/O error and `?` returns *)
LoadFail(t) ==
    /\ pc[t] \in {"r_load", "r_read", "w_load", "w_read"}
    /\ Fail(t)

(* line 128: CACHE_LOCKS.lock().await in CacheLockReadGuard::drop *)
ReadDropLock(t) ==
    /\ pc[t] = "r_unlock"
    /\ mutex = 0
    /\ mutex' = t
    /\ pc' = [pc EXCEPT ![t] = "r_drop"]
    /\ UNCHANGED <<bvars, pool, now, disk, registry, writer, readers, queue, permits, others,
                   args, cur, last>>

(* lines 129-136: the guard dropped, the count decremented, the entry removed
   at zero, the registry mutex released *)
ReadDrop(t) ==
    LET k == args[t].key IN
    /\ pc[t] = "r_drop"
    /\ mutex = t
    /\ DropInner(k, t)
    /\ registry' = Unregister(registry, k)
    /\ mutex' = 0
    /\ pc' = [pc EXCEPT ![t] = "r_check"]
    /\ UNCHANGED <<bvars, pool, now, disk, permits, others, args, cur, last>>

(* lines 201-207: the cache that was read is tested with a reading of the
   clock; a valid cache is returned *)
ReadCheck(t) ==
    /\ pc[t] = "r_check"
    /\ IF IsValidFor(cur[t].cache, args[t].origin, now)
       THEN Return(t, "Ok", "read_hit", cur[t].cache.dir, now)
       ELSE /\ pc' = [pc EXCEPT ![t] = "w_lock"]
            /\ UNCHANGED <<args, cur, last>>
    /\ UNCHANGED <<bvars, pool, now, disk, registry, mutex, writer, readers, queue,
                   permits, others>>

(* line 149: CACHE_LOCKS.lock().await in CacheLockWriteGuard::new *)
WriteNewLock(t) ==
    /\ pc[t] = "w_lock"
    /\ mutex = 0
    /\ mutex' = t
    /\ pc' = [pc EXCEPT ![t] = "w_new"]
    /\ UNCHANGED <<bvars, pool, now, disk, registry, writer, readers, queue, permits, others,
                   args, cur, last>>

(* a constructor that keeps the mutex while it waits for the inner lock *)
WriteNewHolding(t) ==
    LET k == args[t].key IN
    /\ pc[t] = "w_new"
    /\ mutex = t
    /\ registry' = Register(registry, k)
    /\ IF TryWrite(k)
       THEN /\ writer' = [writer EXCEPT ![k] = t]
            /\ pc' = [pc EXCEPT ![t] = "w_load"]
            /\ mutex' = 0
       ELSE /\ pc' = [pc EXCEPT ![t] = "w_enq"]
            /\ UNCHANGED <<writer, mutex>>
    /\ UNCHANGED <<bvars, pool, now, disk, readers, queue, permits, others, args, cur,
                   last>>

(* lines 150-160: the entry, the count, try_write_owned; the mutex is
   released, with the return of the guard or by drop(cache_locks) *)
WriteNew(t) ==
    LET k == args[t].key IN
    /\ pc[t] = "w_new"
    /\ mutex = t
    /\ registry' = Register(registry, k)
    /\ IF TryWrite(k)
       THEN /\ writer' = [writer EXCEPT ![k] = t]
            /\ pc' = [pc EXCEPT ![t] = "w_load"]
       ELSE /\ pc' = [pc EXCEPT ![t] = "w_enq"]
            /\ UNCHANGED writer
    /\ mutex' = 0
    /\ UNCHANGED <<bvars, pool, now, disk, readers, queue, permits, others, args, cur,
                   last>>

(* line 161: the first poll of write_owned(): the lock is taken when it has
   become free, otherwise the task joins the queue of the lock *)
WriteEnqueue(t) ==
    LET k == args[t].key IN
    /\ pc[t] = "w_enq"
    /\ IF TryWrite(k)
       THEN /\ writer' = [writer EXCEPT ![k] = t]
            /\ pc' = [pc EXCEPT ![t] = "w_load"]
            /\ UNCHANGED queue
       ELSE /\ queue' = [queue EXCEPT ![k] = Append(@, Waiter(t, "write"))]
            /\ pc' = [pc EXCEPT ![t] = "w_wait"]
            /\ UNCHANGED writer
    /\ UNCHANGED <<bvars, pool, now, disk, registry, mutex, readers, permits, others,
                   args, cur, last>>

(* line 161: entry_lock.write_owned().await completes *)
WriteWait(t) ==
    LET k == args[t].key IN
    /\ pc[t] = "w_wait"
    /\ Granted(k, t)
    /\ queue' = [queue EXCEPT ![k] = Tail(@)]
    /\ writer' = [writer EXCEPT ![k] = t]
    /\ pc' = [pc EXCEPT ![t] = "w_load"]
    /\ UNCHANGED <<bvars, pool, now, disk, registry, mutex, readers, permits, others, args,
                   cur, last>>

(* a size taken from the cache whenever there is one *)
AdoptSizeAlways(size, c) == IF c.some THEN c.dir.size ELSE size

(* lines 219-221: a size that was not declared is taken from the cache *)
AdoptSize(size, c) == IF c.some /\ size = None THEN c.dir.size ELSE size

(* lines 213-225: the cache that was reloaded is tested with a reading of the
   clock; a cache flushed by another task is returned, a missing size is
   adopted from the cache, and unwrap panics when there is neither *)
WriteCheck(t) ==
    LET sz == AdoptSize(cur[t].size, cur[t].cache) IN
    /\ pc[t] = "w_check"
    /\ IF IsValidFor(cur[t].cache, args[t].origin, now)
       THEN /\ cur' = [cur EXCEPT ![t].tcheck = now, ![t].path = "write_hit"]
            /\ pc' = [pc EXCEPT ![t] = "w_unlock"]
            /\ UNCHANGED <<writer, readers, queue, permits, args, last>>
       ELSE IF sz = None
            THEN /\ DropLocals(t)
                 /\ Return(t, "Panic", pc[t], DefaultCache, 0)
            ELSE /\ cur' = [cur EXCEPT ![t].size = sz]
                 /\ pc' = [pc EXCEPT ![t] = "permit"]
                 /\ UNCHANGED <<writer, readers, queue, permits, args, last>>
    /\ UNCHANGED <<bvars, pool, now, disk, registry, mutex, others>>

(* an announce entered without taking a permit *)
AcquireUnmetered(t) ==
    /\ pc[t] = "permit"
    /\ pc' = [pc EXCEPT ![t] = "announce"]
    /\ UNCHANGED <<bvars, pool, now, disk, registry, mutex, writer, readers, queue, permits,
                   others, args, cur, last>>

(* line 226: TRACKER_CONNECTIONS.acquire() *)
Acquire(t) ==
    /\ pc[t] = "permit"
    /\ permits > 0
    /\ permits' = permits - 1
    /\ pc' = [pc EXCEPT ![t] = "announce"]
    /\ UNCHANGED <<bvars, pool, now, disk, registry, mutex, writer, readers, queue, others,
                   args, cur, last>>

(* line 226: the 30 s timeout elapses with no permit available *)
AdmissionTimeout(t) ==
    /\ pc[t] = "permit"
    /\ permits = 0
    /\ Fail(t)

(* lines 227-232: the origin answers and the permit is dropped *)
AnnounceWith(t, answers) ==
    /\ pc[t] = "announce"
    /\ \E resp \in answers : cur' = [cur EXCEPT ![t].resp = resp]
    /\ DropPermit(t)
    /\ pc' = [pc EXCEPT ![t] = "renew"]
    /\ UNCHANGED <<bvars, pool, now, disk, registry, mutex, writer, readers, queue,
                   others, args, last>>

(* lines 234-245: the size and the expiry of the origin are put into
   curr_cache, with one reading of the clock *)
RenewExpiry(t) ==
    /\ pc[t] = "renew"
    /\ LET c == Renew(cur[t].cache, cur[t].size, args[t].origin, args[t].ttl,
                      cur[t].resp, now)
       IN cur' = [cur EXCEPT ![t].cache = SomeCache(c),
                             ![t].tcheck = now,
                             ![t].todo = SweepOrder(c.peers_time),
                             ![t].path = "refresh"]
    /\ pc' = [pc EXCEPT ![t] = "merge"]
    /\ UNCHANGED <<bvars, pool, now, disk, registry, mutex, writer, readers, queue,
                   permits, others, args, last>>

(* lines 246-251: extract_if visits the next peer, with its own reading of the
   clock *)
EvictNext(t) ==
    /\ pc[t] = "merge"
    /\ cur[t].todo # <<>>
    /\ Head(cur[t].todo).addr < Prefix(1)
    /\ cur' = [cur EXCEPT ![t].cache =
                              SomeCache(EvictExpired(cur[t].cache.dir,
                                                     Head(cur[t].todo), now)),
                          ![t].todo = Tail(cur[t].todo)]
    /\ UNCHANGED <<bvars, pool, now, disk, registry, mutex, writer, readers, queue,
                   permits, others, pc, args, last>>

(* lines 246-251: extract_if goes through the addresses of a block, which
   have one expiry, with a reading of the clock for each: all of them are
   extracted when the first has expired, all are kept when the last has not,
   and the higher ones are extracted when the expiry passes in between, which
   leaves the lower ones. Of the lengths that can be left, the model takes
   that of one address and those that leave in the buffer the room of so many
   origins and addresses of Addrs and no more, or no room at all *)
EvictBlock(t) ==
    LET p == Head(cur[t].todo)
        c == cur[t].cache.dir
        len == (p.addr - 1) \div 2 - NumAddrs - NumProjAddrs
        room == {-1} \cup {i * SerLen.tracker + j * SerLen.peer :
                               i \in 0..NumOrigins, j \in 0..NumAddrs}
        kept == {l \in {SerLen.block_peer}
                        \cup {max_buf_size - SerLen.head - r : r \in room} :
                    l < len} IN
    /\ pc[t] = "merge"
    /\ cur[t].todo # <<>>
    /\ p.addr >= Prefix(1)
    /\ IF ~cur[t].mid
       THEN IF p.expire < now
            THEN cur' = [cur EXCEPT ![t].cache = SomeCache(EvictExpired(c, p, now)),
                                    ![t].todo = Tail(@)]
            ELSE IF kept = {}
                 THEN cur' = [cur EXCEPT ![t].todo = Tail(@)]
                 ELSE cur' = [cur EXCEPT ![t].mid = TRUE]
       ELSE IF p.expire < now
            THEN \E l \in kept :
                    cur' = [cur EXCEPT
                               ![t].cache =
                                   SomeCache([c EXCEPT
                                       !.peers_time = (@ \ {p})
                                                      \cup {Peer(p.expire, Prefix(l))},
                                       !.peers_addr = Put(Without(@, {p.addr}),
                                                          Prefix(l), p.expire)]),
                               ![t].todo = Tail(@),
                               ![t].mid = FALSE]
            ELSE cur' = [cur EXCEPT ![t].todo = Tail(@), ![t].mid = FALSE]
    /\ UNCHANGED <<bvars, pool, now, disk, registry, mutex, writer, readers, queue,
                   permits, others, pc, args, last>>

(* tracker.rs 67-68 and 98-99: value.chunks(n), the lengths of the chunks of
   a compact list of len bytes *)
ChunkLens(len, n) ==
    [i \in 1..((len + n - 1) \div n) |-> IF i * n <= len THEN n ELSE len - (i - 1) * n]

(* tracker.rs 66-75 and 97-106: debug_assert_eq!(len % n, 0) fails in a debug
   build; in a release build the slices x[..n-2], x[n-2], x[n-1] of a chunk
   shorter than n are out of bounds *)
DecodePanics(len, n) ==
    \/ len % n # 0
    \/ \E i \in DOMAIN ChunkLens(len, n) : ChunkLens(len, n)[i] < n

(* lines 254 and 257: one of the two decoders panics on the compact lists of
   the answer *)
Malformed(resp) ==
    \/ DecodePanics(6 * Len(resp.peers) + resp.rest, 6)
    \/ DecodePanics(18 * Len(resp.peers6) + resp.rest6, 18)

(* the answers with a trailing partial tuple in `peers`, in `peers6` or in
   both *)
MalformedAnswers ==
    {r \in [min_interval : {None}, peers : {<<>>}, peers6 : {<<>>},
            rest : {0, 1}, rest6 : {0, 1}] : Malformed(r)}

(* lines 253-276: the peers of the answer are decoded and put into both
   indices, with the expiration of line 260, one more reading of the clock;
   the addresses that the directory has kept of a block are among those of
   the block, so their entries are replaced with it *)
UpsertPeers(t) ==
    LET c == cur[t].cache.dir
        new_peers == cur[t].resp.peers \o cur[t].resp.peers6
        rejoined ==
            IF \E i \in DOMAIN new_peers : new_peers[i] = Block
            THEN [c EXCEPT
                    !.peers_time = {p \in @ : p.addr < Prefix(1) \/ p.addr = Block},
                    !.peers_addr = Without(@, {a \in DOMAIN @ :
                                                  a >= Prefix(1) /\ a # Block})]
            ELSE c IN
    /\ pc[t] = "merge"
    /\ cur[t].todo = <<>>
    /\ ~Malformed(cur[t].resp)
    /\ cur' = [cur EXCEPT ![t].cache =
                              SomeCache(UpsertAll(rejoined, new_peers,
                                                  now + EffectiveTtl(args[t].ttl,
                                                                     cur[t].resp.min_interval))),
                          ![t].texp = now]
    /\ pc' = [pc EXCEPT ![t] = "store"]
    /\ UNCHANGED <<bvars, pool, now, disk, registry, mutex, writer, readers, queue,
                   permits, others, args, last>>

(* lines 253-258: after the sweep, deserialize_peers_binary or
   deserialize_peers6_binary panics on the trailing partial tuple and the
   task unwinds *)
DecodeUnwinds(t) ==
    /\ pc[t] = "merge"
    /\ cur[t].todo = <<>>
    /\ Malformed(cur[t].resp)
    /\ DropLocals(t)
    /\ Return(t, "Panic", "decode", DefaultCache, 0)
    /\ UNCHANGED <<bvars, pool, now, disk, registry, mutex, others>>

(* lines 227-231: the 20 s timeout, a transport error or an answer that does
   not parse *)
AnnounceFail(t) ==
    /\ pc[t] = "announce"
    /\ Fail(t)

(* lines 82-90 of write_cache: create_dir_all has completed and the open with
   create and truncate is handed to the blocking pool *)
StoreDir(t) ==
    /\ pc[t] = "store"
    /\ pc' = [pc EXCEPT ![t] = "store_open"]
    /\ UNCHANGED <<bvars, pool, now, disk, registry, mutex, writer, readers, queue,
                   permits, others, args, cur, last>>

(* lines 85-90: the pool opens the file, which empties it *)
StoreOpen(t) ==
    /\ pc[t] = "store_open"
    /\ disk' = [disk EXCEPT ![args[t].key] = TruncatedFile]
    /\ pc' = [pc EXCEPT ![t] = "store_write"]
    /\ UNCHANGED <<bvars, pool, now, registry, mutex, writer, readers, queue, permits,
                   others, args, cur, last>>

(* lines 82-90: create_dir_all or the open fails and `?` returns *)
StoreOpenFail(t) ==
    /\ pc[t] \in {"store", "store_open"}
    /\ Fail(t)

(* lines 91-94: the task goes on after the open; write_all copies the bytes
   into the buffer of the File, hands the write to the blocking pool and
   completes, and the File is dropped *)
StoreWrite(t) ==
    /\ pc[t] = "store_write"
    /\ ~Big(cur[t].cache.dir)
    /\ pool' = [pool EXCEPT ![args[t].key].write = SomeCache(cur[t].cache.dir),
                            ![args[t].key].part = "whole"]
    /\ pc' = [pc EXCEPT ![t] = "w_unlock"]
    /\ UNCHANGED <<bvars, now, disk, registry, mutex, writer, readers, queue, permits,
                   others, args, cur, last>>

(* line 91: the serialisation is longer than the buffer of the File;
   write_all hands the first buffer to the blocking pool and, with bytes
   left to write, awaits it *)
StoreWriteChunk(t) ==
    /\ pc[t] = "store_write"
    /\ Big(cur[t].cache.dir)
    /\ pool' = [pool EXCEPT ![args[t].key].write = SomeCache(cur[t].cache.dir),
                            ![args[t].key].part = "first"]
    /\ pc' = [pc EXCEPT ![t] = "store_flush"]
    /\ UNCHANGED <<bvars, now, disk, registry, mutex, writer, readers, queue, permits,
                   others, args, cur, last>>

(* lines 91-94: the first buffer is written; write_all hands the rest to the
   blocking pool and completes, and the File is dropped *)
StoreWriteRest(t) ==
    /\ pc[t] = "store_flush"
    /\ pool[args[t].key].done = "ok"
    /\ pool' = [pool EXCEPT ![args[t].key].write = SomeCache(cur[t].cache.dir),
                            ![args[t].key].part = "rest",
                            ![args[t].key].done = "none"]
    /\ pc' = [pc EXCEPT ![t] = "w_unlock"]
    /\ UNCHANGED <<bvars, now, disk, registry, mutex, writer, readers, queue, permits,
                   others, args, cur, last>>

(* lines 91-92: the write of the first buffer failed in the pool; write_all
   returns its error and `?` returns, with the file as the open left it *)
StoreWriteFail(t) ==
    /\ pc[t] = "store_flush"
    /\ pool[args[t].key].done = "err"
    /\ pool' = [pool EXCEPT ![args[t].key].done = "none"]
    /\ DropLocals(t)
    /\ Return(t, "Err", pc[t], DefaultCache, 0)
    /\ UNCHANGED <<bvars, now, disk, registry, mutex, others>>

(* line 91: the pool writes the bytes of the buffer into the file, at the
   position of the File they were handed to: the whole serialisation or its
   first buffer into the file that the open emptied, the rest behind the
   first buffer *)
PoolWrite(k) ==
    LET w == pool[k] IN
    /\ w.write.some
    /\ disk' = [disk EXCEPT ![k] =
                   CASE w.part = "whole" -> ValidFile(w.write.dir)
                     [] w.part = "first" -> PartialFile(w.write.dir)
                     [] OTHER -> IF disk[k] = PartialFile(w.write.dir)
                                 THEN ValidFile(w.write.dir)
                                 ELSE GarbledFile(w.write.dir)]
    /\ pool' = [pool EXCEPT ![k].write = NoCache,
                            ![k].part = "whole",
                            ![k].done = IF /\ w.part = "first"
                                           /\ \E t \in Tasks :
                                                 /\ pc[t] = "store_flush"
                                                 /\ args[t].key = k
                                        THEN "ok" ELSE "none"]
    /\ UNCHANGED <<bvars, now, registry, mutex, writer, readers, queue, permits,
                   others, pc, args, cur, last>>

(* line 91: the write fails in the pool (the disk is full); the error is kept
   for the task that awaits the buffer, otherwise no task is there to see
   it *)
PoolWriteFail(k) ==
    LET w == pool[k] IN
    /\ w.write.some
    /\ pool' = [pool EXCEPT ![k].write = NoCache,
                            ![k].part = "whole",
                            ![k].done = IF /\ w.part = "first"
                                           /\ \E t \in Tasks :
                                                 /\ pc[t] = "store_flush"
                                                 /\ args[t].key = k
                                        THEN "err" ELSE "none"]
    /\ UNCHANGED <<bvars, now, disk, registry, mutex, writer, readers, queue, permits,
                   others, pc, args, cur, last>>

(* lines 85-90: the pool runs the open of a caller that was dropped *)
PoolOpen(k) ==
    /\ pool[k].opens > 0
    /\ disk' = [disk EXCEPT ![k] = TruncatedFile]
    /\ pool' = [pool EXCEPT ![k].opens = @ - 1]
    /\ UNCHANGED <<bvars, now, registry, mutex, writer, readers, queue, permits,
                   others, pc, args, cur, last>>

(* line 170: CACHE_LOCKS.lock().await in CacheLockWriteGuard::drop *)
WriteDropLock(t) ==
    /\ pc[t] = "w_unlock"
    /\ mutex = 0
    /\ mutex' = t
    /\ pc' = [pc EXCEPT ![t] = "w_drop"]
    /\ UNCHANGED <<bvars, pool, now, disk, registry, writer, readers, queue, permits, others,
                   args, cur, last>>

(* lines 171-178, then 218 or 281: the guard dropped, the count decremented,
   the entry removed at zero, Ok returned *)
WriteDrop(t) ==
    LET k == args[t].key IN
    /\ pc[t] = "w_drop"
    /\ mutex = t
    /\ DropInner(k, t)
    /\ registry' = Unregister(registry, k)
    /\ mutex' = 0
    /\ Return(t, "Ok", cur[t].path, cur[t].cache.dir, cur[t].tcheck)
    /\ UNCHANGED <<bvars, pool, now, disk, permits, others>>

(* the awaits of fetch_cache: where the future can be dropped by its caller *)
Suspended ==
    {"r_lock", "r_wait", "r_load", "r_read", "r_unlock", "w_lock", "w_wait",
     "w_load", "w_read", "permit", "announce", "store", "store_open",
     "store_write", "store_flush", "w_unlock"}

(* the caller drops the future (the client went away): the locals are
   dropped; an open or a buffer that was handed to the blocking pool stays
   there, and the result of an awaited buffer is dropped *)
Cancel(t) ==
    /\ pc[t] \in Suspended
    /\ DropLocals(t)
    /\ pool' = CASE pc[t] = "store_open" ->
                        [pool EXCEPT ![args[t].key].opens = @ + 1]
                 [] pc[t] = "store_flush" ->
                        [pool EXCEPT ![args[t].key].done = "none"]
                 [] OTHER -> pool
    /\ Return(t, "Cancelled", pc[t], DefaultCache, 0)
    /\ UNCHANGED <<bvars, now, disk, registry, mutex, others>>

(* line 226: a fetch for an info-hash outside Keys takes a permit of the same
   semaphore *)
OtherAcquire ==
    /\ permits > 0
    /\ permits' = permits - 1
    /\ others' = others + 1
    /\ UNCHANGED <<bvars, pool, now, disk, registry, mutex, writer, readers, queue, pc,
                   args, cur, last>>

(* line 232: a fetch for an info-hash outside Keys drops its permit *)
OtherRelease ==
    /\ others > 0
    /\ permits' = permits + 1
    /\ others' = others - 1
    /\ UNCHANGED <<bvars, pool, now, disk, registry, mutex, writer, readers, queue, pc,
                   args, cur, last>>

(* the clock advances *)
TickTo(bound) ==
    /\ now < bound
    /\ now' = now + 1
    /\ UNCHANGED <<bvars, pool, disk, registry, mutex, writer, readers, queue,
                   permits, others, pc, args, cur, last>>

(* the arguments and the origin's answers of the concurrent specification *)
ConcArgs == [key : Keys, origin : {1}, size : {0}, ttl : {ConcMaxTime}]

ConcAnswers == {r \in Responses : r.min_interval = None /\ r.peers6 = <<>>
                                   /\ Len(r.peers) = 1}

Next ==
    \/ \E t \in Tasks :
          \/ CallWith(t, ConcArgs)
          \/ ReadNewLock(t)
          \/ ReadNew(t)
          \/ ReadEnqueue(t)
          \/ ReadWait(t)
          \/ LoadExists(t)
          \/ LoadRead(t)
          \/ LoadParse(t)
          \/ LoadFail(t)
          \/ ReadDropLock(t)
          \/ ReadDrop(t)
          \/ ReadCheck(t)
          \/ WriteNewLock(t)
          \/ WriteNew(t)
          \/ WriteEnqueue(t)
          \/ WriteWait(t)
          \/ WriteCheck(t)
          \/ Acquire(t)
          \/ AnnounceWith(t, ConcAnswers)
          \/ RenewExpiry(t)
          \/ AnnounceFail(t)
          \/ EvictNext(t)
          \/ UpsertPeers(t)
          \/ StoreDir(t)
          \/ StoreOpen(t)
          \/ StoreOpenFail(t)
          \/ StoreWrite(t)
          \/ WriteDropLock(t)
          \/ WriteDrop(t)
          \/ Cancel(t)
    \/ \E k \in Keys :
          \/ PoolWrite(k)
          \/ PoolWriteFail(k)
          \/ PoolOpen(k)
    \/ TickTo(ConcMaxTime)

Spec == Init /\ [][Next]_vars

----------------------------------------------------------------------------
(* The fair specification: concurrent calls whose callers wait for the result
   (no future is dropped), with and without a declared size, next to fetches
   for other info-hashes that take the permits one by one *)

FairTasks == 1..NumFairTasks

FairArgs == [key : Keys, origin : {1}, size : {None, 0}, ttl : {ConcMaxTime}]

(* one step of fetch_cache for task t *)
Step(t) ==
    \/ ReadNewLock(t)
    \/ ReadNew(t)
    \/ ReadEnqueue(t)
    \/ ReadWait(t)
    \/ LoadExists(t)
    \/ LoadRead(t)
    \/ LoadParse(t)
    \/ LoadFail(t)
    \/ ReadDropLock(t)
    \/ ReadDrop(t)
    \/ ReadCheck(t)
    \/ WriteNewLock(t)
    \/ WriteNew(t)
    \/ WriteEnqueue(t)
    \/ WriteWait(t)
    \/ WriteCheck(t)
    \/ Acquire(t)
    \/ AdmissionTimeout(t)
    \/ AnnounceWith(t, ConcAnswers)
    \/ RenewExpiry(t)
    \/ AnnounceFail(t)
    \/ EvictNext(t)
    \/ UpsertPeers(t)
    \/ StoreDir(t)
    \/ StoreOpen(t)
    \/ StoreOpenFail(t)
    \/ StoreWrite(t)
    \/ WriteDropLock(t)
    \/ WriteDrop(t)

(* one step of the blocking pool *)
PoolStep ==
    \E k \in Keys :
        \/ PoolWrite(k)
        \/ PoolWriteFail(k)

NextFair ==
    \/ \E t \in FairTasks : CallWith(t, FairArgs)
    \/ \E t \in Tasks : Step(t)
    \/ PoolStep
    \/ OtherAcquire
    \/ OtherRelease
    \/ TickTo(ConcMaxTime)

(* The runtime polls every task that can run; the registry mutex, the
   read-write locks and the semaphore of tokio serve their waiters in the order
   of arrival; the filesystem operations complete; the timers of lines 226 and
   227 fire: a task that can take a step takes one. The fetches for other
   info-hashes give their permits back. *)
Fairness ==
    /\ \A t \in Tasks : WF_vars(Step(t))
    /\ WF_vars(PoolStep)
    /\ WF_vars(OtherRelease)

SpecFair == Init /\ [][NextFair]_vars /\ Fairness

----------------------------------------------------------------------------
(* The sequential specification: one call at a time, for both origins and
   with every answer of the origin that declares no min_interval; the clock
   and the blocking pool go on during and between the calls *)

SeqArgs == [key : {1}, origin : Origins, size : {MaxSize}, ttl : {0, 1}]

Quiet == \A u \in Tasks : pc[u] \in {"idle", "done"}

SeqAnswers == {r \in Responses : /\ Len(r.peers) + Len(r.peers6) <= MaxPeers
                                  /\ r.min_interval = None}

TickSeq == TickTo(MaxTime)

NextSeq ==
    \/ \E t \in Tasks :
          \/ (Quiet /\ CallWith(t, SeqArgs))
          \/ ReadNewLock(t)
          \/ ReadNew(t)
          \/ LoadExists(t)
          \/ LoadRead(t)
          \/ LoadParse(t)
          \/ ReadDropLock(t)
          \/ ReadDrop(t)
          \/ ReadCheck(t)
          \/ WriteNewLock(t)
          \/ WriteNew(t)
          \/ WriteCheck(t)
          \/ Acquire(t)
          \/ AnnounceWith(t, SeqAnswers)
          \/ RenewExpiry(t)
          \/ AnnounceWith(t, MalformedAnswers)
          \/ EvictNext(t)
          \/ UpsertPeers(t)
          \/ DecodeUnwinds(t)
          \/ StoreDir(t)
          \/ StoreOpen(t)
          \/ StoreWrite(t)
          \/ WriteDropLock(t)
          \/ WriteDrop(t)
    \/ PoolWrite(1)
    \/ TickSeq

SpecSeq == Init /\ [][NextSeq]_vars

----------------------------------------------------------------------------
(* The specification of the expiries: one call at a time for one origin, with
   every tracker_url, every ttl and every min interval the origin can answer *)

TtlArgs == [key : {1}, origin : {1}, size : {MaxSize}, ttl : Ttls]

TtlAnswers == {r \in Responses : r.peers6 = <<>> /\ Len(r.peers) <= 1}

NextTtl ==
    \/ \E t \in Tasks :
          \/ (Quiet /\ CallWith(t, TtlArgs))
          \/ (Quiet /\ CallRejected(t))
          \/ ReadNewLock(t)
          \/ ReadNew(t)
          \/ LoadExists(t)
          \/ LoadRead(t)
          \/ LoadParse(t)
          \/ ReadDropLock(t)
          \/ ReadDrop(t)
          \/ ReadCheck(t)
          \/ WriteNewLock(t)
          \/ WriteNew(t)
          \/ WriteCheck(t)
          \/ Acquire(t)
          \/ AnnounceWith(t, TtlAnswers)
          \/ RenewExpiry(t)
          \/ EvictNext(t)
          \/ UpsertPeers(t)
          \/ StoreDir(t)
          \/ StoreOpen(t)
          \/ StoreWrite(t)
          \/ WriteDropLock(t)
          \/ WriteDrop(t)
    \/ PoolWrite(1)
    \/ TickSeq

SpecTtl == Init /\ [][NextTtl]_vars

----------------------------------------------------------------------------
(* The specification of the sizes: one call at a time for one origin, with
   every declared size and none *)

SizeArgs == [key : {1}, origin : {1}, size : Sizes \cup {None}, ttl : {1}]

SizeAnswers == {r \in Responses : r.min_interval = None /\ Len(r.peers) <= 1
                                   /\ r.peers6 = <<>>}

NextSize ==
    \/ \E t \in Tasks :
          \/ (Quiet /\ CallWith(t, SizeArgs))
          \/ ReadNewLock(t)
          \/ ReadNew(t)
          \/ LoadExists(t)
          \/ LoadRead(t)
          \/ LoadParse(t)
          \/ ReadDropLock(t)
          \/ ReadDrop(t)
          \/ ReadCheck(t)
          \/ WriteNewLock(t)
          \/ WriteNew(t)
          \/ WriteCheck(t)
          \/ Acquire(t)
          \/ AnnounceWith(t, SizeAnswers)
          \/ RenewExpiry(t)
          \/ EvictNext(t)
          \/ UpsertPeers(t)
          \/ StoreDir(t)
          \/ StoreOpen(t)
          \/ StoreWrite(t)
          \/ WriteDropLock(t)
          \/ WriteDrop(t)
    \/ PoolWrite(1)
    \/ TickSeq

SpecSize == Init /\ [][NextSize]_vars

----------------------------------------------------------------------------
(* The specification of the long serialisations: one call at a time for one
   origin, whose answers hold the block of addresses or no address; the
   writes of the blocking pool can fail *)

BigArgs == [key : {1}, origin : {1}, size : {MaxSize}, ttl : {0, 1}]

BigAnswers == {r \in [min_interval : {None}, peers : {<<>>, <<1>>, <<Block>>},
                      peers6 : {<<>>}, rest : {0}, rest6 : {0}] : TRUE}

NextBig ==
    \/ \E t \in Tasks :
          \/ (Quiet /\ CallWith(t, BigArgs))
          \/ ReadNewLock(t)
          \/ ReadNew(t)
          \/ LoadExists(t)
          \/ LoadRead(t)
          \/ LoadParse(t)
          \/ ReadDropLock(t)
          \/ ReadDrop(t)
          \/ ReadCheck(t)
          \/ WriteNewLock(t)
          \/ WriteNew(t)
          \/ WriteCheck(t)
          \/ Acquire(t)
          \/ AnnounceWith(t, BigAnswers)
          \/ RenewExpiry(t)
          \/ EvictNext(t)
          \/ EvictBlock(t)
          \/ UpsertPeers(t)
          \/ StoreDir(t)
          \/ StoreOpen(t)
          \/ StoreWrite(t)
          \/ StoreWriteChunk(t)
          \/ StoreWriteRest(t)
          \/ StoreWriteFail(t)
          \/ WriteDropLock(t)
          \/ WriteDrop(t)
    \/ PoolWrite(1)
    \/ PoolWriteFail(1)
    \/ TickSeq

SpecBig == Init /\ [][NextBig]_vars

----------------------------------------------------------------------------
(* The specification of the parser: try_from on every input of at most
   MaxInput bytes *)

InitParse ==
    /\ now = 0
    /\ disk = [k \in Keys |-> AbsentFile]
    /\ pool = [k \in Keys |-> IdlePool]
    /\ registry = EmptyMap
    /\ mutex = 0
    /\ writer = [k \in Keys |-> 0]
    /\ readers = [k \in Keys |-> {}]
    /\ queue = [k \in Keys |-> <<>>]
    /\ permits = TrackerPermits
    /\ others = 0
    /\ pc = [t \in Tasks |-> "idle"]
    /\ args = [t \in Tasks |-> NoArgs]
    /\ cur = [t \in Tasks |-> NoCur]
    /\ last = NoLast
    /\ buf \in Inputs
    /\ pos = 1
    /\ stack = new_parser
    /\ result = NoResult

(* the variables of the cache *)
cvars == <<now, disk, pool, registry, mutex, writer, readers, queue, permits, others,
           pc, args, cur, last>>

(* lines 44-46: parser.next(x)? for the next byte of the input *)
TryFromNext ==
    LET r == next(stack, buf[pos]) IN
    /\ result.outcome = "none"
    /\ pos <= Len(buf)
    /\ IF r.outcome = "Ok"
       THEN /\ stack' = r.stack
            /\ pos' = pos + 1
            /\ UNCHANGED result
       ELSE /\ result' = [NoResult EXCEPT !.outcome = r.outcome]
            /\ UNCHANGED <<stack, pos>>
    /\ UNCHANGED <<cvars, buf>>

(* line 47: Ok(parser.stack.pop().unwrap()) at the end of the input *)
TryFromReturn ==
    /\ result.outcome = "none"
    /\ pos > Len(buf)
    /\ result' = [outcome |-> "Ok", obj |-> stack[Len(stack)],
                  root |-> Len(stack) = 1]
    /\ stack' = SubSeq(stack, 1, Len(stack) - 1)
    /\ UNCHANGED <<cvars, buf, pos>>

NextParse ==
    \/ TryFromNext
    \/ TryFromReturn

SpecParse == InitParse /\ [][NextParse]_vars

----------------------------------------------------------------------------
(* The specification of the projection: the cache file of the first info-hash
   is there from an earlier run of the program, fresh for the origin, with any
   set of peers; the calls return it from the read phase *)

ProjDirs ==
    {[size |-> MaxSize,
      trackers |-> Put(EmptyMap, 1, MaxTtl),
      peers_time |-> {Peer(MaxTtl, a) : a \in S},
      peers_addr |-> [a \in S |-> MaxTtl]] : S \in SUBSET ProjAddrs}

InitProj ==
    /\ now = 0
    /\ disk \in {[k \in Keys |-> IF k = 1 THEN ValidFile(c) ELSE AbsentFile] :
                    c \in ProjDirs}
    /\ pool = [k \in Keys |-> IdlePool]
    /\ registry = EmptyMap
    /\ mutex = 0
    /\ writer = [k \in Keys |-> 0]
    /\ readers = [k \in Keys |-> {}]
    /\ queue = [k \in Keys |-> <<>>]
    /\ permits = TrackerPermits
    /\ others = 0
    /\ pc = [t \in Tasks |-> "idle"]
    /\ args = [t \in Tasks |-> NoArgs]
    /\ cur = [t \in Tasks |-> NoCur]
    /\ last = NoLast
    /\ AtRest

ProjArgs == [key : {1}, origin : {1}, size : {None, MaxSize}, ttl : {MaxTtl}]

NextProj ==
    \E t \in Tasks :
        \/ (Quiet /\ CallWith(t, ProjArgs))
        \/ ReadNewLock(t)
        \/ ReadNew(t)
        \/ LoadExists(t)
        \/ LoadRead(t)
        \/ LoadParse(t)
        \/ ReadDropLock(t)
        \/ ReadDrop(t)
        \/ ReadCheck(t)

SpecProj == InitProj /\ [][NextProj]_vars

----------------------------------------------------------------------------
(* Properties *)

Active(t) == pc[t] \notin {"idle", "done"}

Returns(t) == pc[t] # "done" /\ pc'[t] = "done"

(* a refresh for the info-hash and the origin of task t has returned, and the
   expiry it stored for the origin has not passed *)
FreshRefresh(t) ==
    /\ last.outcome = "Ok"
    /\ last.path = "refresh"
    /\ last.args.key = args[t].key
    /\ last.args.origin = args[t].origin
    /\ IsValidFor(SomeCache(last.dir), args[t].origin, now)

(* C1 as stated: single flight. A task is at the permit or inside the announce
   only while it holds the write guard of its info-hash, while no other task
   of that info-hash is between the permit and the end of the store, and
   while the persisted cache is not valid for its origin; and a caller that
   re-checks under the write guard while the expiry of a refresh that returned
   has not passed finds the directory of that refresh in the file, which it
   then returns *)
SingleFlight ==
    \A t \in Tasks :
        LET k == args[t].key IN
        /\ pc[t] \in {"permit", "announce"} =>
              /\ writer[k] = t
              /\ ~IsValidFor(read_cache(disk[k]).val, args[t].origin, now)
              /\ \A u \in Tasks \ {t} :
                    args[u].key = k =>
                        pc[u] \notin {"permit", "announce", "renew", "merge",
                                      "store", "store_open", "store_write",
                                      "store_flush"}
        /\ (pc[t] = "w_load" /\ FreshRefresh(t)) =>
              disk[k] = ValidFile(last.dir)

(* C2 as stated: the directory returned with a positive ttl has an expiry for
   the origin that is strictly after the instant of return *)
ValidAtReturn ==
    (last.outcome = "Ok" /\ last.args.ttl > 0) =>
        /\ last.args.origin \in DOMAIN last.dir.trackers
        /\ last.dir.trackers[last.args.origin] > last.tret

(* the two indices of a directory are in bijection *)
Bijection(c) ==
    /\ \A a \in DOMAIN c.peers_addr : Peer(c.peers_addr[a], a) \in c.peers_time
    /\ \A p \in c.peers_time :
          p.addr \in DOMAIN c.peers_addr /\ c.peers_addr[p.addr] = p.expire

(* C3: the persisted directory, the directory handed to the blocking pool,
   the directory a call works on and the directory a call returned have (a, t) in peers_addr iff Peer(t, a) is in
   peers_time, so no two entries of peers_time share an address *)
IndexBijection ==
    /\ \A k \in Keys : Bijection(disk[k].dir) /\ Bijection(pool[k].write.dir)
    /\ \A t \in Tasks : Bijection(cur[t].cache.dir)
    /\ Bijection(last.dir)

(* a refresh returned a directory with two origins and two peers of different
   expiries, of which one had been announced before *)
IndexBijectionWitness ==
    /\ last.outcome = "Ok"
    /\ last.path = "refresh"
    /\ Cardinality(DOMAIN last.dir.trackers) = 2
    /\ Cardinality(last.dir.peers_time) = 2
    /\ \E p, q \in last.dir.peers_time : p.expire < q.expire
    /\ disk[last.args.key] = ValidFile(last.dir)

InFlight == Cardinality({t \in Tasks : pc[t] = "announce"})

(* C4: the permits available and the permits held by the announces in flight,
   for the info-hashes of the model and for all others, add up to the 10 of
   TRACKER_CONNECTIONS; none is negative, so at most 10 announces are in
   flight *)
PermitAccounting ==
    /\ permits >= 0
    /\ others >= 0
    /\ permits + others + InFlight = TrackerPermits
    /\ others + InFlight <= TrackerPermits

(* every permit is taken, two of them by announces of the model and the
   others one by one by fetches for other info-hashes *)
PermitAccountingWitness ==
    /\ permits = 0
    /\ InFlight = 2
    /\ others = TrackerPermits - 2

(* C5 as stated: a call that returns an error (a failed load, an admission
   timeout, a failed announce, a failure of write_cache) changes no file with
   the step that returns it, and when it returns the error after its reload
   under the write guard, the file of its info-hash is as the reload found
   it *)
FailedFetchKeepsFile ==
    [][\A t \in Tasks :
          (Returns(t) /\ last'.outcome = "Err")
          => /\ disk' = disk
             /\ pc[t] \in {"permit", "announce", "store", "store_open",
                           "store_flush"}
                   => disk'[args[t].key] = cur[t].before]_vars

(* C6: a call that returns an error while it holds the write guard leaves the
   write lock of its info-hash free and no permit behind: the permits
   available are those available before it took its own *)
ErrorReleases ==
    [][\A t \in Tasks :
          (/\ Returns(t)
           /\ last'.outcome = "Err"
           /\ writer[args[t].key] = t)
          => /\ writer'[args[t].key] = 0
             /\ t \notin readers'[args[t].key]
             /\ \A i \in 1..Len(queue'[args[t].key]) :
                   queue'[args[t].key][i].task # t
             /\ permits' = permits + (IF pc[t] = "announce" THEN 1 ELSE 0)
             /\ permits' + others' + Cardinality({u \in Tasks : pc'[u] = "announce"})
                   = TrackerPermits]_vars

(* an announce failed: its call returned an error, the write lock of its
   info-hash is free and every permit is available *)
ErrorReleasesWitness ==
    /\ last.outcome = "Err"
    /\ last.path = "announce"
    /\ writer[last.args.key] = 0
    /\ permits = TrackerPermits

(* the points of a call, between new and drop, at which it is counted in the
   registry *)
Counted ==
    {"r_enq", "r_wait", "r_load", "r_read", "r_parse", "r_unlock", "w_enq",
     "w_wait", "w_load", "w_read", "w_parse", "w_check", "permit", "announce",
     "renew", "merge", "store", "store_open", "store_write", "store_flush",
     "w_unlock"}

(* C7 as stated: a call cancelled at a suspension point holds no guard and no
   permit afterwards, and the count it contributed to the registry entry of
   its info-hash is taken back *)
CancelReleases ==
    [][\A t \in Tasks :
          (Returns(t) /\ last'.outcome = "Cancelled")
          => /\ writer'[args[t].key] # t
             /\ t \notin readers'[args[t].key]
             /\ permits' = permits + (IF pc[t] = "announce" THEN 1 ELSE 0)
             /\ pc[t] \in Counted =>
                   registry' = Unregister(registry, args[t].key)]_vars

(* the call that returned last refreshed the cache, and task t is a call with
   the same arguments and a positive ttl, at the same instant, at which the
   expiry that the first call stored has not passed *)
BackToBack(t) ==
    /\ Active(t)
    /\ last.outcome = "Ok"
    /\ last.path = "refresh"
    /\ args[t] = last.args
    /\ args[t].ttl > 0
    /\ now = last.tret
    /\ IsValidFor(SomeCache(last.dir), args[t].origin, now)

(* C8 as stated: the second of two calls made back to back stays in the read
   phase (no write guard, no permit, no announce) and returns the directory
   that the first call returned and persisted *)
SecondCallHits ==
    [][\A t \in Tasks :
          BackToBack(t) =>
             /\ pc[t] \in {"r_lock", "r_new", "r_enq", "r_wait", "r_load",
                           "r_read", "r_parse", "r_unlock", "r_drop", "r_check"}
             /\ pc'[t] \in {"r_lock", "r_new", "r_enq", "r_wait", "r_load",
                            "r_read", "r_parse", "r_unlock", "r_drop", "r_check",
                            "done"}
             /\ pc'[t] = "done" =>
                   /\ last' = [last EXCEPT !.path = "read_hit"]
                   /\ disk'[args[t].key] = ValidFile(last.dir)]_vars

(* task u holds or waits for the lock of info-hash k *)
OnLock(u, k) ==
    \/ writer[k] = u
    \/ u \in readers[k]
    \/ \E i \in 1..Len(queue[k]) : queue[k][i].task = u

(* C9: a call fails the attempt on the lock of its info-hash, and later joins
   the queue of that lock, only when another call of the same info-hash holds
   the lock or waits for it, and the registry mutex is only held through the
   synchronous stretches of new and drop; the calls of other info-hashes,
   wherever they stand, do not make it wait *)
DistinctKeysIndependent ==
    [][/\ \A t \in Tasks :
             \/ pc[t] \in {"r_new", "w_new"} /\ pc'[t] \in {"r_enq", "w_enq"}
             \/ pc[t] \in {"r_enq", "w_enq"} /\ pc'[t] \in {"r_wait", "w_wait"}
             => \E u \in Tasks \ {t} :
                   /\ Active(u)
                   /\ args[u].key = args[t].key
                   /\ OnLock(u, args[t].key)
       /\ mutex' # 0 => pc'[mutex'] \in {"r_new", "w_new", "r_drop", "w_drop"}]_vars

(* two calls for distinct info-hashes are inside the announce together *)
DistinctKeysIndependentWitness ==
    \E t, u \in Tasks :
        /\ args[t].key # args[u].key
        /\ pc[t] = "announce"
        /\ pc[u] = "announce"

(* C10 as stated: a call with no declared size that finds no cached directory
   under the write guard returns an error to its caller, with the file as it
   was and the write lock free *)
MissingSizeIsError ==
    [][\A t \in Tasks :
          (/\ pc[t] = "w_check"
           /\ args[t].size = None
           /\ ~cur[t].cache.some
           /\ Returns(t)
           /\ last'.outcome # "Cancelled")
          => /\ last'.outcome = "Err"
             /\ disk' = disk
             /\ writer'[args[t].key] = 0]_vars

(* the steps of the merge, lines 234-276: the size and the expiry of the
   origin are set, extract_if visits one peer, the peers of the answer are
   put in *)
Renews(t) == pc[t] = "renew" /\ pc'[t] = "merge"

Sweeps(t) ==
    /\ pc[t] = "merge"
    /\ pc'[t] = "merge"
    /\ cur[t].todo # <<>>
    /\ cur'[t].todo = Tail(cur[t].todo)

Upserts(t) == pc[t] = "merge" /\ pc'[t] = "store"

(* the addresses of an answer *)
Answered(resp) ==
    {(resp.peers \o resp.peers6)[i] : i \in 1..Len(resp.peers \o resp.peers6)}

(* C11 as stated: a cached peer whose expiry equals now() when the eviction
   sweep comes to it is removed from peers_time and from peers_addr *)
EvictsAtNow ==
    [][\A t \in Tasks :
          (Sweeps(t) /\ Head(cur[t].todo).expire = now)
          => /\ Head(cur[t].todo) \notin cur'[t].cache.dir.peers_time
             /\ Head(cur[t].todo).addr \notin DOMAIN cur'[t].cache.dir.peers_addr]_vars

(* max(ttl, min_interval), a missing or zero min_interval being no floor *)
FlooredTtl(ttl, min_interval) ==
    IF min_interval = None \/ min_interval = 0 THEN ttl
    ELSE IF min_interval > ttl THEN min_interval ELSE ttl

(* C12: after a refresh, the expiry stored for the origin is the clock value
   read at line 245 plus max(ttl, min_interval), and the expiry of every peer
   the origin returned, in both indices, is the clock value read at line 260,
   which is not earlier, plus max(ttl, min_interval), where a missing or zero
   min_interval leaves the ttl and a larger min_interval overrides it *)
RefreshExpiry ==
    \A t \in Tasks :
        cur[t].path = "refresh" =>
            LET c == cur[t].cache.dir
                f == FlooredTtl(args[t].ttl, cur[t].resp.min_interval)
            IN /\ args[t].origin \in DOMAIN c.trackers
               /\ c.trackers[args[t].origin] = cur[t].tcheck + f
               /\ pc[t] # "merge" =>
                     /\ cur[t].tcheck <= cur[t].texp
                     /\ \A a \in Answered(cur[t].resp) :
                           /\ a \in DOMAIN c.peers_addr
                           /\ c.peers_addr[a] = cur[t].texp + f
                           /\ Peer(cur[t].texp + f, a) \in c.peers_time

(* a merge at a later instant in which the origin's min interval overrode a
   positive ttl, with a peer whose expiry was computed one clock tick after
   the expiry of the origin *)
RefreshExpiryWitness ==
    \E t \in Tasks :
        /\ pc[t] = "store"
        /\ cur[t].tcheck > 0
        /\ cur[t].texp > cur[t].tcheck
        /\ args[t].ttl > 0
        /\ cur[t].resp.min_interval # None
        /\ cur[t].resp.min_interval > args[t].ttl
        /\ cur[t].resp.peers # <<>>
        /\ cur[t].cache.dir.trackers[args[t].origin]
              = cur[t].tcheck + cur[t].resp.min_interval

(* the directory c has no entry, or a stale one, for origin o at instant n *)
StaleFor(c, o, n) == o \notin DOMAIN c.trackers \/ c.trackers[o] <= n

(* the directory c is fresh for an origin other than o at instant n *)
FreshForOther(c, o, n) ==
    \E a \in DOMAIN c.trackers : a # o /\ c.trackers[a] > n

(* C13: a call for origin B on a directory that is fresh for another origin A
   and stale for B does not return the cache from the read phase nor from the
   re-check but goes on to the announce; its merge leaves the expiry of every
   other origin as it was and sets the expiry of B, the sweep removes no peer
   but the one it tests and keeps that one when its expiry is after now(), and
   the upsert keeps every peer that B did not return, with its expiry, and
   holds every peer B returned *)
MultiOrigin ==
    [][\A t \in Tasks :
          LET old == cur[t].cache.dir
              new_dir == cur'[t].cache.dir
              b == args[t].origin
          IN /\ (/\ pc[t] = "r_check"
                 /\ pc'[t] # "r_check"
                 /\ cur[t].cache.some
                 /\ FreshForOther(old, b, now)
                 /\ StaleFor(old, b, now)) => pc'[t] = "w_lock"
             /\ (/\ pc[t] = "w_check"
                 /\ pc'[t] # "w_check"
                 /\ cur[t].cache.some
                 /\ FreshForOther(old, b, now)
                 /\ StaleFor(old, b, now)) => pc'[t] = "permit"
             /\ (/\ Renews(t)
                 /\ cur[t].cache.some
                 /\ FreshForOther(old, b, now))
                => /\ \A a \in DOMAIN old.trackers \ {b} :
                         /\ a \in DOMAIN new_dir.trackers
                         /\ new_dir.trackers[a] = old.trackers[a]
                   /\ b \in DOMAIN new_dir.trackers
                   /\ new_dir.trackers[b] >= now
                   /\ new_dir.peers_time = old.peers_time
                   /\ new_dir.peers_addr = old.peers_addr
             /\ Sweeps(t)
                => /\ new_dir.trackers = old.trackers
                   /\ \A p \in old.peers_time :
                         (p # Head(cur[t].todo) \/ p.expire > now)
                         => /\ p \in new_dir.peers_time
                            /\ p.addr \in DOMAIN new_dir.peers_addr
                            /\ new_dir.peers_addr[p.addr] = p.expire
             /\ Upserts(t)
                => /\ new_dir.trackers = old.trackers
                   /\ \A p \in old.peers_time :
                         p.addr \notin Answered(cur[t].resp)
                         => /\ p \in new_dir.peers_time
                            /\ p.addr \in DOMAIN new_dir.peers_addr
                            /\ new_dir.peers_addr[p.addr] = p.expire
                   /\ \A a \in Answered(cur[t].resp) :
                         a \in DOMAIN new_dir.peers_addr]_vars

(* the merge of B's answer into a directory that was fresh for A only: A's
   unexpired peer is kept next to the peer that B returned *)
MultiOriginWitness ==
    \E t \in Tasks :
        LET old == cur[t].before.dir
            new_dir == cur[t].cache.dir
            b == args[t].origin
        IN /\ pc[t] = "store"
           /\ cur[t].before.st = "valid"
           /\ b \notin DOMAIN old.trackers
           /\ FreshForOther(old, b, cur[t].tcheck)
           /\ \E p \in old.peers_time :
                 /\ p.expire > cur[t].texp
                 /\ p.addr \notin Answered(cur[t].resp)
                 /\ p \in new_dir.peers_time
           /\ Answered(cur[t].resp) # {}
           /\ Cardinality(DOMAIN new_dir.trackers) = 2
           /\ \E a \in DOMAIN old.trackers : new_dir.trackers[a] # new_dir.trackers[b]

(* C14: after the upsert of the merge, every address the origin returned,
   once or several times, has exactly one entry in peers_addr and exactly one
   in peers_time, both with the expiry now() + effective ttl of this merge;
   the entry Peer(t_old, addr) it had before is no longer in peers_time (it is
   the same entry when t_old is that very expiry) *)
PeerRefresh ==
    [][\A t \in Tasks :
          Upserts(t) =>
             LET old == cur[t].cache.dir
                 new_dir == cur'[t].cache.dir
                 e == now + FlooredTtl(args[t].ttl, cur[t].resp.min_interval)
             IN \A a \in Answered(cur[t].resp) :
                   /\ a \in DOMAIN new_dir.peers_addr
                   /\ new_dir.peers_addr[a] = e
                   /\ {p \in new_dir.peers_time : p.addr = a} = {Peer(e, a)}
                   /\ (a \in DOMAIN old.peers_addr /\ old.peers_addr[a] # e)
                         => Peer(old.peers_addr[a], a) \notin new_dir.peers_time]_vars

(* the origin returned, twice in one answer, an address that was in the
   directory with an older expiry that had not passed *)
PeerRefreshWitness ==
    \E t \in Tasks :
        LET old == cur[t].before.dir
            new_dir == cur[t].cache.dir
            all == cur[t].resp.peers \o cur[t].resp.peers6
        IN /\ pc[t] = "store"
           /\ cur[t].before.st = "valid"
           /\ Len(all) = 2
           /\ all[1] = all[2]
           /\ all[1] \in DOMAIN old.peers_addr
           /\ old.peers_addr[all[1]] >= cur[t].texp
           /\ old.peers_addr[all[1]] < new_dir.peers_addr[all[1]]

(* C15 as stated: for one info-hash no two stores overlap, and a load of
   fetch_cache finds either no file or the file as the latest completed store
   wrote it, never the truncated file of a store that did not complete *)
LoadsSeeStores ==
    /\ \A k \in Keys :
          Cardinality({t \in Tasks : /\ pc[t] \in {"store", "store_open", "store_write",
                                                   "store_flush"}
                                     /\ args[t].key = k}) <= 1
    /\ \A t \in Tasks :
          /\ pc[t] \in {"r_load", "r_read", "w_load", "w_read"} =>
                disk[args[t].key].st \in {"absent", "valid"}
          /\ pc[t] \in {"r_parse", "w_parse"} =>
                /\ Joined(cur[t].text).st = "valid"
                /\ disk[args[t].key] = Joined(cur[t].text)

(* C16 as stated: when the compact list of the origin has a trailing partial
   tuple, the call returns an error to its caller and the file is as it was *)
MalformedListIsError ==
    [][\A t \in Tasks :
          (pc[t] = "merge" /\ Returns(t) /\ last'.path = "decode")
          => /\ last'.outcome = "Err"
             /\ disk' = disk]_vars

(* C17 as stated: a call whose tracker_url does not parse, or parses and has
   no host, returns an error to its caller before it takes a lock, reads a
   file or asks for a permit *)
MalformedUrlIsError ==
    [][\A t \in Tasks :
          (pc[t] = "idle" /\ Returns(t))
          => /\ last'.outcome = "Err"
             /\ UNCHANGED <<disk, registry, mutex, writer, readers, queue,
                            permits>>]_vars

(* the elements of a sequence *)
Range(f) == {f[i] : i \in DOMAIN f}

(* C18: whatever the order in which peers_addr is iterated, the response
   projected from a returned directory has interval = min_interval = 30,
   complete = 0 and incomplete = the number of peers; peers is 6 bytes for
   each IPv4 address (4 address bytes, then the port big-endian) and peers6 18
   bytes for each IPv6 address, so that incomplete = len(peers)/6 +
   len(peers6)/18 and decoding both lists gives the addresses of the
   directory, each once *)
ProjectionFaithful ==
    last.outcome = "Ok" =>
        \A keys \in Orders(DOMAIN last.dir.peers_addr) :
            LET r == From(last.dir, keys)
                v4 == {a \in DOMAIN last.dir.peers_addr : IsIpv4(a)}
                v6 == {a \in DOMAIN last.dir.peers_addr : ~IsIpv4(a)}
                d4 == deserialize_peers_binary(r.peers)
                d6 == deserialize_peers6_binary(r.peers6)
            IN /\ r.interval = 30
               /\ r.min_interval = 30
               /\ r.seeders = 0
               /\ r.leechers = Cardinality(DOMAIN last.dir.peers_addr)
               /\ Len(r.peers) = 6 * Cardinality(v4)
               /\ Len(r.peers6) = 18 * Cardinality(v6)
               /\ r.leechers = Len(r.peers) \div 6 + Len(r.peers6) \div 18
               /\ \A i \in 1..Cardinality(v4) :
                     \E a \in v4 :
                        SubSeq(r.peers, 6 * i - 5, 6 * i)
                           = Octets(a) \o <<Port(a) \div 256, Port(a) % 256>>
               /\ Len(d4) = Cardinality(v4)
               /\ Len(d6) = Cardinality(v6)
               /\ Range(d4) = {SockAddr(a) : a \in v4}
               /\ Range(d6) = {SockAddr(a) : a \in v6}

(* a directory of two IPv4 and two IPv6 peers was returned and projected *)
ProjectionFaithfulWitness ==
    /\ last.outcome = "Ok"
    /\ Cardinality({a \in DOMAIN last.dir.peers_addr : IsIpv4(a)}) = 2
    /\ Cardinality({a \in DOMAIN last.dir.peers_addr : ~IsIpv4(a)}) = 2
    /\ \E keys \in Orders(DOMAIN last.dir.peers_addr) :
          /\ Len(From(last.dir, keys).peers) = 12
          /\ Len(From(last.dir, keys).peers6) = 36

(* the outer guards of info-hash k that are being created, held or being
   released *)
LiveGuards(k) ==
    Cardinality({t \in Tasks : /\ pc[t] \in Counted \cup {"r_drop", "w_drop"}
                               /\ args[t].key = k})

(* C19 as stated: the count of an info-hash is the number of its live outer
   guards, so a fetch that returns, with success or with an error, takes its
   own count with it and adds nothing to the difference between the two *)
RefcountIsLiveGuards ==
    [][\A t \in Tasks :
          (Returns(t) /\ last'.outcome \in {"Ok", "Err"})
          => \A k \in Keys :
                LET count(r) == IF k \in DOMAIN r THEN r[k] ELSE 0 IN
                count(registry') - LiveGuards(k)' = count(registry) - LiveGuards(k)]_vars

(* C20: every entry of the registry has a count of at least one: a creation
   counts its creator and a release that brings the count to zero removes the
   entry, both within one critical section of the registry mutex, so no task
   that takes the mutex finds an entry with a zero count *)
NoZeroEntry ==
    /\ \A k \in DOMAIN registry : registry[k] >= 1
    /\ mutex # 0 => pc[mutex] \in {"r_new", "w_new", "r_drop", "w_drop"}

(* a call returned and its release removed the entry of its info-hash, the
   registry still counts other calls, and a call for the same info-hash holds
   the mutex and is about to create the entry anew *)
NoZeroEntryWitness ==
    /\ last.outcome = "Ok"
    /\ last.args.key \notin DOMAIN registry
    /\ registry # EmptyMap
    /\ \E t \in Tasks : pc[t] \in {"r_new", "w_new"} /\ args[t].key = last.args.key

(* C21: a constructor holds the registry mutex only through the stretch that
   ends with the try_read_owned / try_write_owned attempt: a task whose
   attempt failed has released the mutex before it reaches read_owned /
   write_owned, and a task that waits there is in the queue of the lock of its
   info-hash and does not hold the mutex *)
MutexFreeWhileWaiting ==
    \A t \in Tasks :
        /\ pc[t] \in {"r_new", "w_new"} => mutex = t
        /\ pc[t] \in {"r_enq", "w_enq"} =>
              /\ mutex # t
              /\ \A i \in 1..Len(queue[args[t].key]) :
                    queue[args[t].key][i].task # t
        /\ pc[t] \in {"r_wait", "w_wait"} =>
              /\ mutex # t
              /\ \E i \in 1..Len(queue[args[t].key]) :
                    queue[args[t].key][i].task = t

(* the attempt of a task on the write lock of its info-hash failed and the
   task has not reached write_owned, a second task waits in the queue of that
   lock, and a third, for the other info-hash, holds the registry mutex *)
MutexFreeWhileWaitingWitness ==
    \E t, u, v \in Tasks :
        /\ pc[t] = "w_enq"
        /\ pc[v] \in {"r_wait", "w_wait"}
        /\ args[v].key = args[t].key
        /\ mutex = u
        /\ pc[u] \in {"r_new", "w_new"}
        /\ args[u].key # args[t].key

(* the tasks that hold or wait for the lock of info-hash k *)
LockUsers(k) == {u \in Tasks : OnLock(u, k)}

(* C22: a write guard of an info-hash coexists with no other guard of it,
   read guards coexist with each other; and the tasks that hold or wait for
   the lock of an info-hash are all counted in one registry entry, which is
   therefore not removed and created anew under them: an info-hash without
   entry has no holder and no waiter, so the lock created with the next entry
   is the only one in use *)
WriterExcludes ==
    \A k \in Keys :
        /\ writer[k] # 0 => readers[k] = {}
        /\ \A u \in LockUsers(k) : Active(u) /\ args[u].key = k
        /\ LockUsers(k) # {} =>
              /\ k \in DOMAIN registry
              /\ registry[k] >= Cardinality(LockUsers(k))
        /\ k \notin DOMAIN registry =>
              writer[k] = 0 /\ readers[k] = {} /\ queue[k] = <<>>

(* two read guards of one info-hash are held together and a writer, back
   from its own read phase, waits behind them; the entry counts the three *)
WriterExcludesWitness ==
    \E k \in Keys :
        /\ Cardinality(readers[k]) = 2
        /\ Len(queue[k]) = 1
        /\ queue[k][1].mode = "write"
        /\ registry[k] = 3

(* C23 as stated: a directory returned with Ok, from a hit or after a refresh,
   holds no peer, in either index, whose expiry is earlier than the instant of
   return *)
NoOverduePeers ==
    last.outcome = "Ok" =>
        /\ \A p \in last.dir.peers_time : p.expire >= last.tret
        /\ \A a \in DOMAIN last.dir.peers_addr : last.dir.peers_addr[a] >= last.tret

(* the size a refresh by task t has to announce and to store: the declared
   one, else the one of the file found under the write guard *)
DueSize(t) ==
    IF args[t].size # None THEN args[t].size ELSE cur[t].before.dir.size

(* C24: a call that refreshes announces the declared size when there is one,
   whatever size was persisted, and the persisted size when there is none, and
   hands a directory with that size to the store; the file takes the
   directory that was handed over; a call served from the cache, in the read
   phase or at the re-check, leaves the file and its size as they are *)
SizeRule ==
    [][/\ \A t \in Tasks :
             /\ pc[t] \in {"permit", "announce"} =>
                   /\ cur[t].size = DueSize(t)
                   /\ args[t].size = None => cur[t].before.st = "valid"
             /\ Renews(t) => cur'[t].cache.dir.size = DueSize(t)
             /\ (pc[t] = "store_write" /\ pc'[t] = "w_unlock") =>
                   /\ pool'[args[t].key].write.some
                   /\ pool'[args[t].key].write.dir.size = DueSize(t)
             /\ (Returns(t) /\ last'.outcome = "Ok" /\ last'.path = "refresh") =>
                   last'.dir.size = DueSize(t)
             /\ (Returns(t) /\ last'.outcome = "Ok"
                   /\ last'.path \in {"read_hit", "write_hit"}) =>
                   /\ disk' = disk
                   /\ disk[args[t].key] = ValidFile(last'.dir)
             /\ (pc[t] = "w_check" /\ pc'[t] = "w_unlock") => disk' = disk
       /\ \A k \in Keys :
             (pool[k].write.some /\ disk'[k] # disk[k]) =>
                 disk'[k] = ValidFile(pool[k].write.dir)]_vars

(* a refresh stored the declared size over a different persisted one *)
SizeRuleWitness ==
    \E t \in Tasks :
        /\ pc[t] = "w_unlock"
        /\ cur[t].path = "refresh"
        /\ cur[t].before.st = "valid"
        /\ args[t].size # None
        /\ cur[t].before.dir.size # args[t].size
        /\ disk[args[t].key] = ValidFile(cur[t].cache.dir)
        /\ disk[args[t].key].dir.size = args[t].size

(* the tasks whose guard for key k is being dropped by the guard's own drop():
   from the call of drop() to the removal of the count *)
Dropping(k) ==
    {t \in Tasks : /\ pc[t] \in {"r_unlock", "r_drop", "w_unlock", "w_drop"}
                   /\ args[t].key = k}

(* C25: whenever drop() of a read or write guard runs, the registry has an
   entry for the guard's key whose count is at least 1, and at least the number
   of the drops under way for that key, so that the unchecked lookup finds the
   entry and no decrement goes below zero *)
DropFindsEntry ==
    \A k \in Keys :
        Dropping(k) # {} =>
            /\ k \in DOMAIN registry
            /\ registry[k] >= 1
            /\ registry[k] >= Cardinality(Dropping(k))

(* two drops for the same key under way at once, one of them holding the
   registry mutex *)
DropFindsEntryWitness ==
    \E k \in Keys, t \in Tasks, u \in Tasks :
        /\ t # u
        /\ {t, u} \subseteq Dropping(k)
        /\ pc[t] \in {"r_drop", "w_drop"}
        /\ mutex = t
        /\ registry[k] >= 2

(* C26 as stated: under fair scheduling every call of fetch_cache ends, and it
   ends by returning Ok or Err, however many calls run at once for the same or
   for different info-hashes and however many permits are taken *)
EveryCallReturns ==
    /\ \A t \in Tasks : Active(t) ~> pc[t] = "done"
    /\ [][\A t \in Tasks : Returns(t) => last'.outcome \in {"Ok", "Err"}]_vars

(* C27 as stated: whenever try_from returns Ok, for whole, truncated and
   over-terminated inputs alike, the object it returns is the root list: a
   List that was the only object on the parser stack when the input ended *)
RootListReturned ==
    result.outcome = "Ok" => result.obj.kind = "List" /\ result.root

====
